---- MODULE Spec2Model ----
\* A model of the prioqueue package (priority_queue.go): a priority queue
\* over Go's container/heap, with index-tracking handles (*Item).
EXTENDS Integers, Sequences, FiniteSets, TLC

\* ---------------------------------------------------------------- bounds
\* Spec: the number of Enqueue calls made on the queue.
MaxHandles == 2
\* SpecFilled, SpecDrain: the number of Enqueue calls that fill the queue.
MaxFill == 6
\* Priorities passed to Enqueue and UpdatePriority are drawn from 1..MaxPriority.
MaxPriority == 2

Priorities == 1..MaxPriority
\* SpecCmp: the number of Enqueue calls that fill the queue, and the values
\* passed to them, drawn from 1..MaxValue.
MaxCmpFill == 3
MaxValue == 2

Values == 1..MaxValue
\* The number of calls made on a cleared queue and on a new one to compare them.
MaxScript == 3

\* `var zero T`: the zero value returned with ok=false. The callers of the
\* model enqueue the values 1, 2, 3, ... in turn (as TestConcurrentAccess
\* does), so every element has a value of its own and none is the zero value.
Zero == 0

\* ---------------------------------------------------------------- state
VARIABLES
    items,       \* pq.items: the slice, as a sequence of handle ids (Go index i is items[i+1])
    mem,         \* every Item struct allocated so far: mem[h] = [Value, Priority, Index]
    isMaxHeap,   \* pq.isMaxHeap
    comparator,  \* pq.comparator: "nil" or "cmp"
    ret,         \* what the last public call returned
    fate,        \* history: fate[h] is how handle h left the queue, or "live"
    drained,     \* history: the results of the Dequeue calls of a drain
    pc,          \* pc[t]: where goroutine t is in the call it is making
    job,         \* job[t]: the call of goroutine t, its arguments, locals and results
    w,           \* pq.mutex: the goroutine that holds it for writing (0: none)
    readers,     \* pq.mutex: the goroutines that hold it for reading
    lens,        \* the lengths written to pq.items that an unsynchronized read may see
    sizes        \* history: the sizes the queue had after each completed mutation

\* The goroutines and the mutex.
conc == <<pc, job, w, readers, lens, sizes>>

vars == <<items, mem, isMaxHeap, comparator, ret, fate, drained, conc>>

\* The queue as the heap functions see it: the slice and the structs it points to.
Self == [items |-> items, mem |-> mem]

Handles == 1..Len(mem)

\* The goroutines that use the queue: two, like the producer and the consumer
\* of TestConcurrentAccess.
Threads == {1, 2}

\* No call: the job of a goroutine that has not called anything.
NoJob ==
    [op |-> "none", arg |-> 0, value |-> Zero, priority |-> 0, early |-> FALSE,
     ok |-> FALSE, item |-> 0, out |-> 0, after |-> 0]

\* The queue is used by one goroutine: no call is under way, the mutex is free.
Sequential ==
    /\ pc = [t \in Threads |-> "idle"]
    /\ job = [t \in Threads |-> NoJob]
    /\ w = 0
    /\ readers = {}
    /\ lens = {}
    /\ sizes = {}

\* ---------------------------------------------------------------- heap.Interface
\* func (pq) Len() int
PQLen(pq) == Len(pq.items)

\* pq.items[i] (Go 0-based index): the handle stored at slot i.
At(pq, i) == pq.items[i + 1]

\* The comparator of the model's custom-comparator queues: three-way
\* comparison of two values.
Compare(a, b) == a - b

\* func (pq) Less(i, j int) bool, with the operands swapped in the default branch.
LessFlipped(pq, i, j) ==
    IF comparator /= "nil"
    THEN LET result == Compare(pq.mem[At(pq, i)].Value, pq.mem[At(pq, j)].Value)
         IN  IF isMaxHeap THEN result > 0 ELSE result < 0
    ELSE IF isMaxHeap
         THEN pq.mem[At(pq, i)].Priority < pq.mem[At(pq, j)].Priority
         ELSE pq.mem[At(pq, i)].Priority > pq.mem[At(pq, j)].Priority

\* func (pq) Less(i, j int) bool, never looking at isMaxHeap in the default branch.
LessMinOnly(pq, i, j) ==
    IF comparator /= "nil"
    THEN LET result == Compare(pq.mem[At(pq, i)].Value, pq.mem[At(pq, j)].Value)
         IN  IF isMaxHeap THEN result > 0 ELSE result < 0
    ELSE pq.mem[At(pq, i)].Priority < pq.mem[At(pq, j)].Priority

\* func (pq) Less(i, j int) bool, comparing the priorities even when a
\* comparator is set.
LessNoComparator(pq, i, j) ==
    IF isMaxHeap
    THEN pq.mem[At(pq, i)].Priority > pq.mem[At(pq, j)].Priority
    ELSE pq.mem[At(pq, i)].Priority < pq.mem[At(pq, j)].Priority

\* func (pq) Less(i, j int) bool
Less(pq, i, j) ==
    IF comparator /= "nil"
    THEN LET result == Compare(pq.mem[At(pq, i)].Value, pq.mem[At(pq, j)].Value)
         IN  IF isMaxHeap THEN result > 0 ELSE result < 0
    ELSE IF isMaxHeap
         THEN pq.mem[At(pq, i)].Priority > pq.mem[At(pq, j)].Priority
         ELSE pq.mem[At(pq, i)].Priority < pq.mem[At(pq, j)].Priority

\* func (pq) Swap(i, j int) without the two Index assignments.
SwapNoIndex(pq, i, j) ==
    [pq EXCEPT !.items = [pq.items EXCEPT ![i + 1] = pq.items[j + 1],
                                          ![j + 1] = pq.items[i + 1]]]

\* func (pq) Swap(i, j int) copying slot j into slot i only.
SwapOneWay(pq, i, j) ==
    [items |-> [pq.items EXCEPT ![i + 1] = pq.items[j + 1]],
     mem   |-> [pq.mem EXCEPT ![pq.items[j + 1]].Index = i]]

\* func (pq) Swap(i, j int): exchange the slots, then store each slot's index
\* in the struct it now points to.
Swap(pq, i, j) ==
    LET its == [pq.items EXCEPT ![i + 1] = pq.items[j + 1],
                                ![j + 1] = pq.items[i + 1]]
        m1  == [pq.mem EXCEPT ![its[i + 1]].Index = i]
        m2  == [m1 EXCEPT ![its[j + 1]].Index = j]
    IN  [items |-> its, mem |-> m2]

\* func (pq) Push(x) storing the item in the last slot of a non-empty slice
\* instead of appending it.
PushOverwrite(pq, h) ==
    LET n == Len(pq.items)
    IN  IF n = 0
        THEN [items |-> Append(pq.items, h), mem |-> [pq.mem EXCEPT ![h].Index = n]]
        ELSE [items |-> [pq.items EXCEPT ![n] = h],
              mem   |-> [pq.mem EXCEPT ![h].Index = n - 1]]

\* func (pq) Push(x) without `item.Index = n`.
PushNoIndex(pq, h) == [items |-> Append(pq.items, h), mem |-> pq.mem]

\* func (pq) Push(x): item.Index = n; append.
Push(pq, h) ==
    LET n == Len(pq.items)
    IN  [items |-> Append(pq.items, h),
         mem   |-> [pq.mem EXCEPT ![h].Index = n]]

\* func (pq) Pop() without `item.Index = -1`.
PopKeepIndex(pq) ==
    LET n == Len(pq.items)
    IN  [pq   |-> [items |-> SubSeq(pq.items, 1, n - 1), mem |-> pq.mem],
         item |-> pq.items[n]]

\* func (pq) Pop() without `pq.items = old[0 : n-1]`.
PopNoShrink(pq) ==
    LET n    == Len(pq.items)
        item == pq.items[n]
    IN  [pq   |-> [items |-> pq.items,
                   mem   |-> [pq.mem EXCEPT ![item].Index = -1]],
         item |-> item]

\* func (pq) Pop(): take the last slot, item.Index = -1, shrink the slice.
Pop(pq) ==
    LET n    == Len(pq.items)
        item == pq.items[n]
    IN  [pq   |-> [items |-> SubSeq(pq.items, 1, n - 1),
                   mem   |-> [pq.mem EXCEPT ![item].Index = -1]],
         item |-> item]

\* ---------------------------------------------------------------- container/heap
\* Go's integer division truncates toward zero: (0 - 1) / 2 = 0.
Parent(j) == IF j - 1 < 0 THEN 0 - ((1 - j) \div 2) ELSE (j - 1) \div 2

RECURSIVE up(_, _)
\* heap.up(h, j)
up(pq, j) ==
    LET i == Parent(j)
    IN  IF i = j \/ ~Less(pq, j, i) THEN pq ELSE up(Swap(pq, i, j), i)

RECURSIVE downLoop(_, _, _)
\* The loop of heap.down(h, i0, n): the queue and the index where the element stops.
downLoop(pq, i, n) ==
    LET j1 == 2 * i + 1
        j2 == j1 + 1
        j  == IF j2 < n /\ Less(pq, j2, j1) THEN j2 ELSE j1
    IN  IF j1 >= n \/ j1 < 0 THEN [pq |-> pq, i |-> i]
        ELSE IF ~Less(pq, j, i) THEN [pq |-> pq, i |-> i]
        ELSE downLoop(Swap(pq, i, j), j, n)

\* heap.down(h, i0, n): returns whether the element moved.
down(pq, i0, n) ==
    LET r == downLoop(pq, i0, n)
    IN  [pq |-> r.pq, moved |-> r.i > i0]

RECURSIVE initLoop(_, _, _)
initLoop(pq, i, n) == IF i < 0 THEN pq ELSE initLoop(down(pq, i, n).pq, i - 1, n)

\* heap.Init(h)
heapInit(pq) == LET n == PQLen(pq) IN initLoop(pq, (n \div 2) - 1, n)

\* heap.Push(h, x)
heapPush(pq, h) == LET p == Push(pq, h) IN up(p, PQLen(p) - 1)

\* heap.Pop(h)
heapPop(pq) ==
    LET n == PQLen(pq) - 1
    IN  Pop(down(Swap(pq, 0, n), 0, n).pq)

\* heap.Fix(h, i) without the up: down only.
heapFixDownOnly(pq, i) == down(pq, i, PQLen(pq)).pq

\* heap.Fix(h, i)
heapFix(pq, i) ==
    LET d == down(pq, i, PQLen(pq))
    IN  IF ~d.moved THEN up(d.pq, i) ELSE d.pq

\* heap.Remove(h, i)
heapRemove(pq, i) ==
    LET n == PQLen(pq) - 1
        s == Swap(pq, i, n)
        d == down(s, i, n)
    IN  IF n /= i
        THEN Pop(IF ~d.moved THEN up(d.pq, i) ELSE d.pq)
        ELSE Pop(pq)


\* ---------------------------------------------------------------- public methods
\* Each method is a function of the queue (and its arguments) to the queue it
\* leaves and what it returns; `item` is the *Item the call returned or took
\* out (0: none).

\* New / NewMax: an empty slice; heap.Init.
New == heapInit([items |-> <<>>, mem |-> <<>>])

\* Enqueue(value, priority): allocate the Item (Index is Go's zero value until
\* Push sets it), heap.Push, return the handle.
Enqueue(pq, value, priority) ==
    LET h    == Len(pq.mem) + 1
        item == [Value |-> value, Priority |-> priority, Index |-> 0]
    IN  [pq   |-> heapPush([items |-> pq.items, mem |-> Append(pq.mem, item)], h),
         item |-> h]

\* Dequeue() returning (zero, true) on an empty slice.
DequeueZeroOk(pq) ==
    IF Len(pq.items) = 0
    THEN [pq |-> pq, value |-> Zero, ok |-> TRUE, item |-> 0]
    ELSE LET r == heapPop(pq)
         IN  [pq |-> r.pq, value |-> r.pq.mem[r.item].Value, ok |-> TRUE, item |-> r.item]

\* Dequeue(): (zero, false) on an empty slice, else heap.Pop and its value.
Dequeue(pq) ==
    IF Len(pq.items) = 0
    THEN [pq |-> pq, value |-> Zero, ok |-> FALSE, item |-> 0]
    ELSE LET r == heapPop(pq)
         IN  [pq |-> r.pq, value |-> r.pq.mem[r.item].Value, ok |-> TRUE, item |-> r.item]

\* Peek() returning the last slot's value instead of the first's.
PeekLast(pq) ==
    IF Len(pq.items) = 0
    THEN [value |-> Zero, ok |-> FALSE, item |-> 0]
    ELSE [value |-> pq.mem[At(pq, Len(pq.items) - 1)].Value, ok |-> TRUE,
          item |-> At(pq, Len(pq.items) - 1)]

\* Peek(): (zero, false) on an empty slice, else pq.items[0].Value.
Peek(pq) ==
    IF Len(pq.items) = 0
    THEN [value |-> Zero, ok |-> FALSE, item |-> 0]
    ELSE [value |-> pq.mem[At(pq, 0)].Value, ok |-> TRUE, item |-> At(pq, 0)]

\* IsEmpty(): len(pq.items) == 0
IsEmpty(pq) == Len(pq.items) = 0

\* Size(): pq.Len()
Size(pq) == PQLen(pq)

\* Clear() without the truncation: heap.Init(pq) only.
ClearNoTruncate(pq) == heapInit(pq)

\* Clear(): pq.items = pq.items[:0]; heap.Init(pq). The Item structs the slice
\* pointed to are not written.
Clear(pq) == heapInit([items |-> SubSeq(pq.items, 1, 0), mem |-> pq.mem])

\* `item.Index < 0 || item.Index >= len(pq.items)`
OutOfRange(pq, item) ==
    pq.mem[item].Index < 0 \/ pq.mem[item].Index >= Len(pq.items)

\* UpdatePriority writing the priority of the Item stored at slot item.Index.
UpdatePrioritySlot(pq, item, newPriority) ==
    IF OutOfRange(pq, item)
    THEN pq
    ELSE heapFix([items |-> pq.items,
                  mem   |-> [pq.mem EXCEPT
                               ![At(pq, pq.mem[item].Index)].Priority = newPriority]],
                 pq.mem[item].Index)

\* UpdatePriority writing the new priority without heap.Fix.
UpdatePriorityNoFix(pq, item, newPriority) ==
    IF OutOfRange(pq, item)
    THEN pq
    ELSE [items |-> pq.items,
          mem   |-> [pq.mem EXCEPT ![item].Priority = newPriority]]

\* UpdatePriority(item, newPriority): return on an out-of-range Index, else
\* item.Priority = newPriority; heap.Fix(pq, item.Index).
UpdatePriority(pq, item, newPriority) ==
    IF OutOfRange(pq, item)
    THEN pq
    ELSE heapFix([items |-> pq.items,
                  mem   |-> [pq.mem EXCEPT ![item].Priority = newPriority]],
                 pq.mem[item].Index)

\* Remove(item): (zero, false) on an out-of-range Index, else
\* heap.Remove(pq, item.Index) and the value of the Item it took out.
Remove(pq, item) ==
    IF OutOfRange(pq, item)
    THEN [pq |-> pq, value |-> Zero, ok |-> FALSE, item |-> 0]
    ELSE LET r == heapRemove(pq, pq.mem[item].Index)
         IN  [pq |-> r.pq, value |-> r.pq.mem[r.item].Value, ok |-> TRUE, item |-> r.item]

\* ToSlice returning the pointers of the slice instead of copies of the structs.
ToSliceShared(pq) == [i \in 1..Len(pq.items) |-> [ref |-> pq.items[i]]]

\* ToSlice(): result[i] = *item, a copy of every struct in slice order.
ToSlice(pq) == [i \in 1..Len(pq.items) |-> pq.mem[pq.items[i]]]

\* String(): "PriorityQueue[]" when empty, else the heap type, the size and
\* one line (index, value, priority) per slot.
String(pq) ==
    IF Len(pq.items) = 0
    THEN <<"PriorityQueue[]">>
    ELSE <<"PriorityQueue", IF isMaxHeap THEN "max" ELSE "min", Len(pq.items),
           [i \in 1..Len(pq.items) |->
              <<i - 1, pq.mem[pq.items[i]].Value, pq.mem[pq.items[i]].Priority>>]>>

\* ---------------------------------------------------------------- calls
\* What the last public call was and returned: the method, its handle
\* argument (0: none), the ok flag, the value, the Item returned or taken out
\* (0: none; Go returns only its value) and any other output.
Result(op, arg, ok, value, item, out) ==
    [op |-> op, arg |-> arg, ok |-> ok, value |-> value, item |-> item, out |-> out]

\* The slots of the slice, as a set of handles.
InQueue(pq) == {pq.items[i] : i \in 1..Len(pq.items)}

\* The k-th Enqueue call passes the value k.
NextValue == Len(mem) + 1

CallEnqueueValue(value, priority) ==
    /\ LET r == Enqueue(Self, value, priority)
       IN  /\ items' = r.pq.items
           /\ mem' = r.pq.mem
           /\ ret' = Result("Enqueue", 0, TRUE, value, r.item, 0)
           /\ fate' = Append(fate, "live")
    /\ UNCHANGED <<isMaxHeap, comparator, conc>>

CallEnqueue(priority) == CallEnqueueValue(NextValue, priority)

CallDequeue ==
    /\ LET r == Dequeue(Self)
       IN  /\ items' = r.pq.items
           /\ mem' = r.pq.mem
           /\ ret' = Result("Dequeue", 0, r.ok, r.value, r.item, 0)
           /\ fate' = [h \in Handles |-> IF h = r.item THEN "dequeued" ELSE fate[h]]
    /\ UNCHANGED <<isMaxHeap, comparator, conc>>

\* A Peek call that takes the element it returns out of the queue.
CallPeekTake ==
    /\ LET r == Dequeue(Self)
       IN  /\ items' = r.pq.items
           /\ mem' = r.pq.mem
           /\ ret' = Result("Peek", 0, r.ok, r.value, r.item, 0)
    /\ UNCHANGED <<isMaxHeap, comparator, conc, fate, drained>>

CallPeek ==
    /\ LET r == Peek(Self)
       IN  ret' = Result("Peek", 0, r.ok, r.value, r.item, 0)
    /\ UNCHANGED <<items, mem, isMaxHeap, comparator, conc, fate, drained>>

CallIsEmpty ==
    /\ ret' = Result("IsEmpty", 0, TRUE, Zero, 0, IsEmpty(Self))
    /\ UNCHANGED <<items, mem, isMaxHeap, comparator, conc, fate, drained>>

CallSize ==
    /\ ret' = Result("Size", 0, TRUE, Zero, 0, Size(Self))
    /\ UNCHANGED <<items, mem, isMaxHeap, comparator, conc, fate, drained>>

CallClear ==
    /\ LET pq == Clear(Self)
       IN  /\ items' = pq.items
           /\ mem' = pq.mem
    /\ ret' = Result("Clear", 0, TRUE, Zero, 0, 0)
    /\ fate' = [h \in Handles |-> IF h \in InQueue(Self) THEN "cleared" ELSE fate[h]]
    /\ UNCHANGED <<isMaxHeap, comparator, conc, drained>>

CallUpdatePriority(h, newPriority) ==
    /\ LET pq == UpdatePriority(Self, h, newPriority)
       IN  /\ items' = pq.items
           /\ mem' = pq.mem
    /\ ret' = Result("UpdatePriority", h, TRUE, Zero, 0, newPriority)
    /\ UNCHANGED <<isMaxHeap, comparator, conc, fate, drained>>

CallRemove(h) ==
    /\ LET r == Remove(Self, h)
       IN  /\ items' = r.pq.items
           /\ mem' = r.pq.mem
           /\ ret' = Result("Remove", h, r.ok, r.value, r.item, 0)
           /\ fate' = [g \in Handles |-> IF g = r.item THEN "removed" ELSE fate[g]]
    /\ UNCHANGED <<isMaxHeap, comparator, conc, drained>>

CallToSlice ==
    /\ ret' = Result("ToSlice", 0, TRUE, Zero, 0, ToSlice(Self))
    /\ UNCHANGED <<items, mem, isMaxHeap, comparator, conc, fate, drained>>

CallString ==
    /\ ret' = Result("String", 0, TRUE, Zero, 0, String(Self))
    /\ UNCHANGED <<items, mem, isMaxHeap, comparator, conc, fate, drained>>

\* ---------------------------------------------------------------- Spec
\* A queue built by New or NewMax, and any sequence of public calls on it,
\* with any handle Enqueue has returned so far.
Init ==
    /\ isMaxHeap \in BOOLEAN
    /\ comparator = "nil"
    /\ items = New.items
    /\ mem = New.mem
    /\ ret = Result(IF isMaxHeap THEN "NewMax" ELSE "New", 0, TRUE, Zero, 0, 0)
    /\ fate = <<>>
    /\ drained = <<>>
    /\ Sequential

DoEnqueue ==
    /\ Len(mem) < MaxHandles
    /\ \E priority \in Priorities : CallEnqueue(priority)
    /\ UNCHANGED drained

DoDequeue == CallDequeue /\ UNCHANGED drained

DoUpdatePriority ==
    \E h \in Handles, newPriority \in Priorities : CallUpdatePriority(h, newPriority)

DoRemove == \E h \in Handles : CallRemove(h)

Next ==
    \/ DoEnqueue
    \/ DoDequeue
    \/ CallPeek
    \/ CallIsEmpty
    \/ CallSize
    \/ CallClear
    \/ DoUpdatePriority
    \/ DoRemove
    \/ CallToSlice
    \/ CallString

Spec == Init /\ [][Next]_vars

\* ---------------------------------------------------------------- SpecFilled
\* A queue that was filled and cleared (or never used), then filled by
\* Enqueue calls with any priorities in any order, at most MaxFill Enqueue
\* calls in all; and then one public call on it, with any handle.
RECURSIVE Fill(_, _)
\* The queue after Enqueue(v, ps[1]), Enqueue(v + 1, ps[2]), ... on pq.
Fill(pq, ps) ==
    IF Len(ps) = 0
    THEN pq
    ELSE LET q == Fill(pq, SubSeq(ps, 1, Len(ps) - 1))
         IN  Enqueue(q, Len(q.mem) + 1, ps[Len(ps)]).pq

\* The queue after k Enqueue calls of priority 1 and a Clear (k = 0: a new queue).
Cleared(k) == IF k = 0 THEN New ELSE Clear(Fill(New, [i \in 1..k |-> 1]))

InitFilled ==
    /\ isMaxHeap \in BOOLEAN
    /\ comparator = "nil"
    /\ \E k \in 0..MaxFill : \E n \in 0..(MaxFill - k) : \E ps \in [1..n -> Priorities] :
          /\ items = Fill(Cleared(k), ps).items
          /\ mem = Fill(Cleared(k), ps).mem
          /\ fate = [h \in 1..(k + n) |-> IF h <= k THEN "cleared" ELSE "live"]
    /\ ret = Result("Fill", 0, TRUE, Zero, 0, 0)
    /\ drained = <<>>
    /\ Sequential

\* No public call has been made on the filled queue yet.
Filled == ret.op = "Fill"

NextFilled ==
    \/ Filled /\ (\E priority \in Priorities : CallEnqueue(priority)) /\ UNCHANGED drained
    \/ Filled /\ DoDequeue
    \/ Filled /\ CallPeek
    \/ Filled /\ CallIsEmpty
    \/ Filled /\ CallSize
    \/ Filled /\ CallClear
    \/ Filled /\ DoUpdatePriority
    \/ Filled /\ DoRemove
    \/ Filled /\ CallToSlice
    \/ Filled /\ CallString

SpecFilled == InitFilled /\ [][NextFilled]_vars

\* ---------------------------------------------------------------- SpecDrain
\* Up to MaxFill Enqueue calls on a new queue, then Dequeue calls only: until
\* the queue is empty, and once more.
FillEnqueue ==
    /\ drained = <<>>
    /\ Len(mem) < MaxFill
    /\ \E priority \in Priorities : CallEnqueue(priority)
    /\ UNCHANGED drained

DrainDequeue ==
    /\ Len(drained) <= Len(mem)
    /\ (Len(drained) > 0 => drained[Len(drained)].ok)
    /\ CallDequeue
    /\ drained' = Append(drained, [ok |-> ret'.ok, item |-> ret'.item])

NextDrain == FillEnqueue \/ DrainDequeue

SpecDrain == Init /\ [][NextDrain]_vars

\* ---------------------------------------------------------------- SpecCmp
\* A queue built by NewWithComparator(Compare, isMaxHeap), filled by up to
\* MaxCmpFill Enqueue calls with any values and any priorities, and then one
\* public call on it.
RECURSIVE FillWith(_, _, _)
\* The queue after Enqueue(vs[1], ps[1]), Enqueue(vs[2], ps[2]), ... on pq.
FillWith(pq, vs, ps) ==
    IF Len(vs) = 0
    THEN pq
    ELSE LET q == FillWith(pq, SubSeq(vs, 1, Len(vs) - 1), SubSeq(ps, 1, Len(ps) - 1))
         IN  Enqueue(q, vs[Len(vs)], ps[Len(ps)]).pq

InitCmp ==
    /\ isMaxHeap \in BOOLEAN
    /\ comparator = "cmp"
    /\ \E n \in 0..MaxCmpFill : \E vs \in [1..n -> Values] : \E ps \in [1..n -> Priorities] :
          /\ items = FillWith(New, vs, ps).items
          /\ mem = FillWith(New, vs, ps).mem
          /\ fate = [h \in 1..n |-> "live"]
    /\ ret = Result("Fill", 0, TRUE, Zero, 0, 0)
    /\ drained = <<>>
    /\ Sequential

NextCmp ==
    \/ /\ Filled
       /\ \E value \in Values, priority \in Priorities : CallEnqueueValue(value, priority)
       /\ UNCHANGED drained
    \/ Filled /\ DoDequeue
    \/ Filled /\ CallPeek
    \/ Filled /\ CallIsEmpty
    \/ Filled /\ CallSize
    \/ Filled /\ CallClear
    \/ Filled /\ DoUpdatePriority
    \/ Filled /\ DoRemove
    \/ Filled /\ CallToSlice
    \/ Filled /\ CallString

SpecCmp == InitCmp /\ [][NextCmp]_vars

\* ---------------------------------------------------------------- SpecSnapshot
\* A filled queue as in SpecFilled, a ToSlice call on it, and then one more
\* public call while the caller still holds the slice ToSlice returned.
Taken == ret.op = "ToSlice"

NextSnapshot ==
    \/ Filled /\ CallToSlice
    \/ Taken /\ (\E priority \in Priorities : CallEnqueue(priority)) /\ UNCHANGED drained
    \/ Taken /\ DoDequeue
    \/ Taken /\ CallPeek
    \/ Taken /\ CallIsEmpty
    \/ Taken /\ CallSize
    \/ Taken /\ CallClear
    \/ Taken /\ DoUpdatePriority
    \/ Taken /\ DoRemove
    \/ Taken /\ CallToSlice
    \/ Taken /\ CallString

SpecSnapshot == InitFilled /\ [][NextSnapshot]_vars

\* ---------------------------------------------------------------- goroutines
\* Concurrent callers. Every method but Size starts with pq.mutex.Lock() or
\* pq.mutex.RLock() and a deferred unlock, which runs at every return. The
\* body of a writing method takes two steps (Begin, End), between which the
\* slice is in an intermediate state:
\*   Enqueue         the Item is appended     | heap.up moves it to its place
\*   Dequeue         Swap(0, n); heap.down    | Pop takes the last slot out
\*   Clear           pq.items = pq.items[:0]  | heap.Init
\*   UpdatePriority  item.Priority is written | heap.Fix
\*   Remove          Swap(i, n); down or up   | Pop takes the last slot out
\* The body of a reading method is one step. sync.RWMutex is Go's: Lock takes
\* the writer mutex, which keeps new readers out, and then waits for the
\* readers that are inside to leave.
Writers == {"Enqueue", "Dequeue", "Clear", "UpdatePriority", "Remove"}
Readers == {"Peek", "IsEmpty", "ToSlice", "String"}

Job(op, arg, value, priority) ==
    [NoJob EXCEPT !.op = op, !.arg = arg, !.value = value, !.priority = priority]

\* The calls a goroutine can make in the current state.
Jobs ==
    {Job("Enqueue", 0, NextValue, p) : p \in Priorities}
      \cup {Job(op, 0, Zero, 0) : op \in {"Dequeue", "Clear", "Size"} \cup Readers}
      \cup {Job("UpdatePriority", h, Zero, p) : h \in Handles, p \in Priorities}
      \cup {Job("Remove", h, Zero, 0) : h \in Handles}

\* The early returns: Dequeue on an empty slice, UpdatePriority and Remove
\* on an out-of-range Index.
Early(pq, j) ==
    CASE j.op = "Dequeue" -> Len(pq.items) = 0
      [] j.op \in {"UpdatePriority", "Remove"} -> OutOfRange(pq, j.arg)
      [] OTHER -> FALSE

\* `pq.items = pq.items[:0]` dropping the last slot only.
TruncatedByOne(pq) ==
    [items |-> SubSeq(pq.items, 1, Len(pq.items) - 1), mem |-> pq.mem]

\* `pq.items = pq.items[:0]`
Truncated(pq) == [items |-> SubSeq(pq.items, 1, 0), mem |-> pq.mem]

\* The queue after the first part of the body of writing call j.
Begun(pq, j) ==
    IF Early(pq, j) THEN pq
    ELSE CASE j.op = "Enqueue" ->
                Push([items |-> pq.items,
                      mem   |-> Append(pq.mem, [Value |-> j.value,
                                                Priority |-> j.priority, Index |-> 0])],
                     Len(pq.mem) + 1)
           [] j.op = "Dequeue" ->
                LET n == PQLen(pq) - 1 IN down(Swap(pq, 0, n), 0, n).pq
           [] j.op = "Clear" -> Truncated(pq)
           [] j.op = "UpdatePriority" ->
                [items |-> pq.items,
                 mem   |-> [pq.mem EXCEPT ![j.arg].Priority = j.priority]]
           [] j.op = "Remove" ->
                LET i == pq.mem[j.arg].Index
                    n == PQLen(pq) - 1
                    d == down(Swap(pq, i, n), i, n)
                IN  IF n /= i THEN (IF ~d.moved THEN up(d.pq, i) ELSE d.pq) ELSE pq

\* The queue after the second part of the body of writing call j.
Ended(pq, j) ==
    IF j.early THEN pq
    ELSE CASE j.op = "Enqueue" -> up(pq, PQLen(pq) - 1)
           [] j.op \in {"Dequeue", "Remove"} -> Pop(pq).pq
           [] j.op = "Clear" -> heapInit(pq)
           [] j.op = "UpdatePriority" -> heapFix(pq, pq.mem[j.arg].Index)

\* The queue after the whole body of writing call j, run without interruption.
Whole(pq, j) ==
    CASE j.op = "Enqueue" -> Enqueue(pq, j.value, j.priority).pq
      [] j.op = "Dequeue" -> Dequeue(pq).pq
      [] j.op = "Clear" -> Clear(pq)
      [] j.op = "UpdatePriority" -> UpdatePriority(pq, j.arg, j.priority)
      [] j.op = "Remove" -> Remove(pq, j.arg).pq

\* Goroutine t calls a method.
Invoke(t, j) ==
    /\ pc[t] = "idle"
    /\ pc' = [pc EXCEPT ![t] = IF j.op = "Size" THEN "read" ELSE "lock"]
    /\ job' = [job EXCEPT ![t] = j]
    /\ UNCHANGED <<items, mem, isMaxHeap, comparator, ret, fate, drained,
                   w, readers, lens, sizes>>

\* RWMutex.Lock can take the writer mutex.
CanLock == w = 0

\* pq.mutex.Lock(), first half: take the writer mutex.
Lock(t) ==
    /\ pc[t] = "lock" /\ job[t].op \in Writers
    /\ CanLock
    /\ w' = t
    /\ pc' = [pc EXCEPT ![t] = "wait"]
    /\ UNCHANGED <<items, mem, isMaxHeap, comparator, ret, fate, drained,
                   job, readers, lens, sizes>>

\* pq.mutex.Lock(), second half: the readers have left. `after` records the
\* size the call is going to leave.
Enter(t) ==
    /\ pc[t] = "wait"
    /\ readers = {}
    /\ pc' = [pc EXCEPT ![t] = "in"]
    /\ job' = [job EXCEPT ![t].after = Size(Whole(Self, job[t]))]
    /\ UNCHANGED <<items, mem, isMaxHeap, comparator, ret, fate, drained,
                   w, readers, lens, sizes>>

\* An RLock that does not look at the writer mutex.
CanRLockAlways == TRUE

\* RWMutex.RLock can go on: no writer holds or waits for the mutex.
CanRLock == w = 0

\* pq.mutex.RLock()
RLock(t) ==
    /\ pc[t] = "lock" /\ job[t].op \in Readers
    /\ CanRLock
    /\ readers' = readers \cup {t}
    /\ pc' = [pc EXCEPT ![t] = "in"]
    /\ UNCHANGED <<items, mem, isMaxHeap, comparator, ret, fate, drained,
                   job, w, lens, sizes>>

\* The first part of the body of a writing method.
Begin(t) ==
    /\ pc[t] = "in" /\ job[t].op \in Writers
    /\ LET j == job[t]
           q == Begun(Self, j)
       IN  /\ items' = q.items
           /\ mem' = q.mem
           /\ job' = [job EXCEPT ![t].early = Early(Self, j),
                                 ![t].item = IF j.op = "Enqueue" THEN Len(mem) + 1 ELSE 0]
           /\ fate' = CASE j.op = "Enqueue" -> Append(fate, "live")
                        [] j.op = "Clear" ->
                             [h \in Handles |->
                                IF h \in InQueue(Self) THEN "cleared" ELSE fate[h]]
                        [] OTHER -> fate
           /\ lens' = lens \cup {Size(q)}
    /\ pc' = [pc EXCEPT ![t] = "mid"]
    /\ UNCHANGED <<isMaxHeap, comparator, ret, drained, w, readers, sizes>>

\* An Unlock that an early return skips.
UnlockOnSuccess(t, j) == IF j.early THEN t ELSE 0

\* The deferred pq.mutex.Unlock() of call j: the holder of the writer mutex
\* after it.
Unlock(t, j) == 0

\* The second part of the body of a writing method, the return and the
\* deferred Unlock; the goroutine goes on at `next`.
End(t, next) ==
    /\ pc[t] = "mid"
    /\ LET j     == job[t]
           q     == Ended(Self, j)
           taken == IF ~j.early /\ j.op \in {"Dequeue", "Remove"}
                    THEN Pop(Self).item ELSE 0
       IN  /\ items' = q.items
           /\ mem' = q.mem
           /\ job' = [job EXCEPT ![t].ok = ~j.early,
                                 ![t].item = IF taken /= 0 THEN taken ELSE j.item,
                                 ![t].value = IF taken /= 0 THEN mem[taken].Value
                                              ELSE j.value]
           /\ fate' = IF taken = 0 THEN fate
                      ELSE [fate EXCEPT ![taken] =
                              IF j.op = "Dequeue" THEN "dequeued" ELSE "removed"]
           /\ drained' = IF taken /= 0 /\ j.op = "Dequeue"
                         THEN Append(drained, [ok |-> TRUE, item |-> taken])
                         ELSE drained
           /\ lens' = lens \cup {Size(q)}
           /\ sizes' = sizes \cup {Size(q)}
           /\ w' = Unlock(t, j)
    /\ pc' = [pc EXCEPT ![t] = next]
    /\ UNCHANGED <<isMaxHeap, comparator, ret, readers>>

\* The body of a reading method, the return and the deferred RUnlock.
Read(t, next) ==
    /\ pc[t] = "in" /\ job[t].op \in Readers
    /\ job' = [job EXCEPT
                 ![t].ok = IF job[t].op = "Peek" THEN Peek(Self).ok ELSE TRUE,
                 ![t].value = IF job[t].op = "Peek" THEN Peek(Self).value ELSE Zero,
                 ![t].item = IF job[t].op = "Peek" THEN Peek(Self).item ELSE 0,
                 ![t].out = CASE job[t].op = "IsEmpty" -> IsEmpty(Self)
                              [] job[t].op = "ToSlice" -> ToSlice(Self)
                              [] job[t].op = "String" -> String(Self)
                              [] OTHER -> 0]
    /\ readers' = readers \ {t}
    /\ pc' = [pc EXCEPT ![t] = next]
    /\ UNCHANGED <<items, mem, isMaxHeap, comparator, ret, fate, drained,
                   w, lens, sizes>>

\* Size(): pq.Len() with no lock. The read of the length races with the
\* writers: it returns one of the lengths written so far.
SizeRead(t, next) ==
    /\ pc[t] = "read"
    /\ \E n \in lens : job' = [job EXCEPT ![t].ok = TRUE, ![t].out = n]
    /\ pc' = [pc EXCEPT ![t] = next]
    /\ UNCHANGED <<items, mem, isMaxHeap, comparator, ret, fate, drained,
                   w, readers, lens, sizes>>

\* ---------------------------------------------------------------- SpecConc
\* A queue filled with up to MaxHandles elements, on which each goroutine
\* makes one call, any method with any argument, at any time.
\* The goroutines start on the queue filled with the priorities ps.
Shared(ps) ==
    /\ comparator = "nil"
    /\ items = Fill(New, ps).items
    /\ mem = Fill(New, ps).mem
    /\ fate = [h \in 1..Len(ps) |-> "live"]
    /\ lens = {Len(ps)}
    /\ sizes = {Len(ps)}
    /\ ret = Result("Fill", 0, TRUE, Zero, 0, 0)
    /\ drained = <<>>
    /\ pc = [t \in Threads |-> "idle"]
    /\ job = [t \in Threads |-> NoJob]
    /\ w = 0
    /\ readers = {}

InitConc ==
    /\ isMaxHeap \in BOOLEAN
    /\ \E n \in 0..MaxHandles : \E ps \in [1..n -> Priorities] : Shared(ps)

NextConc ==
    \/ \E t \in Threads : \E j \in Jobs : Invoke(t, j)
    \/ \E t \in Threads : Lock(t)
    \/ \E t \in Threads : Enter(t)
    \/ \E t \in Threads : RLock(t)
    \/ \E t \in Threads : Begin(t)
    \/ \E t \in Threads : End(t, "done")
    \/ \E t \in Threads : Read(t, "done")
    \/ \E t \in Threads : SizeRead(t, "done")

SpecConc == InitConc /\ [][NextConc]_vars

\* The steps of a call of goroutine t once it is made.
Running(t) ==
    \/ Lock(t) \/ Enter(t) \/ RLock(t)
    \/ Begin(t) \/ End(t, "done") \/ Read(t, "done") \/ SizeRead(t, "done")

\* The same calls on a queue filled with elements of priority 1, and a
\* scheduler that runs every goroutine that can run.
InitConcFair ==
    /\ isMaxHeap \in BOOLEAN
    /\ \E n \in 0..MaxHandles : Shared([i \in 1..n |-> 1])

SpecConcFair ==
    InitConcFair /\ [][NextConc]_vars /\ \A t \in Threads : WF_vars(Running(t))

\* ---------------------------------------------------------------- SpecPC
\* TestConcurrentAccess with MaxHandles elements for its 100: goroutine 1
\* calls pq.Enqueue(i, i) for i = 0, 1, ...; goroutine 2 calls Dequeue until
\* MaxHandles of its calls have returned ok.
InitPC ==
    /\ isMaxHeap \in BOOLEAN
    /\ Shared(<<>>)

\* `for i := 0; i < 100; i++ { pq.Enqueue(i, i) }`: i is the number of
\* Enqueue calls made so far.
Produce ==
    /\ pc[1] = "idle"
    /\ Len(mem) < MaxHandles
    /\ Invoke(1, Job("Enqueue", 0, Len(mem), Len(mem)))

\* `for count < 100 { if _, ok := pq.Dequeue(); ok { count++ } }`: count is
\* the number of Dequeue calls that have returned ok.
Consume ==
    /\ pc[2] = "idle"
    /\ Len(drained) < MaxHandles
    /\ Invoke(2, Job("Dequeue", 0, Zero, 0))

NextPC ==
    \/ Produce
    \/ Consume
    \/ \E t \in Threads : Lock(t)
    \/ \E t \in Threads : Enter(t)
    \/ \E t \in Threads : Begin(t)
    \/ \E t \in Threads : End(t, "idle")

\* The steps of goroutine t.
RunPC(t) ==
    \/ t = 1 /\ Produce
    \/ t = 2 /\ Consume
    \/ Lock(t) \/ Enter(t) \/ Begin(t) \/ End(t, "idle")

\* The scheduler runs every goroutine that can run, and a goroutine that
\* waits in Lock gets the mutex: sync.Mutex hands it to a waiter that has
\* waited long (starvation mode) rather than to a goroutine that keeps
\* re-locking it.
SpecPC ==
    /\ InitPC /\ [][NextPC]_vars
    /\ \A t \in Threads : WF_vars(RunPC(t)) /\ SF_vars(Lock(t))

\* The same goroutines with a scheduler that is only weakly fair to Lock.
SpecPCWeak == InitPC /\ [][NextPC]_vars /\ \A t \in Threads : WF_vars(RunPC(t))

\* ================================================================ properties
\* The Item at Go index i of the slice.
ItemAt(pq, i) == pq.mem[pq.items[i + 1]]

\* No element strictly outranks the element at its parent index.
HeapOrdered(pq) ==
    \A i \in 1..(Len(pq.items) - 1) :
        IF isMaxHeap
        THEN ItemAt(pq, (i - 1) \div 2).Priority >= ItemAt(pq, i).Priority
        ELSE ItemAt(pq, (i - 1) \div 2).Priority <= ItemAt(pq, i).Priority

\* g strictly outranks h under the queue's ordering.
Outranks(g, h) ==
    IF isMaxHeap THEN mem[g].Priority > mem[h].Priority
                 ELSE mem[g].Priority < mem[h].Priority

\* h is in the queue and no element of the queue strictly outranks it.
Best(h) == h \in InQueue(Self) /\ \A g \in InQueue(Self) : ~Outranks(g, h)

\* C1. Heap invariant: in every state reached from a filled (and possibly
\* cleared and refilled) queue by Enqueue, Dequeue, UpdatePriority, Remove or
\* Clear, with a live or a stale handle, no element at an index i > 0 strictly
\* outranks the element at index (i-1)/2 (min: parent <= child; max: parent >= child).
C1_HeapInvariant == HeapOrdered(Self)

\* A Remove took the element of index 3 out of a six-element min-heap and the
\* last element, put in its place, went up to index 1.
C1_Witness ==
    /\ ~isMaxHeap
    /\ ret.op = "Remove" /\ ret.ok /\ ret.item = 4
    /\ items = <<1, 6, 3, 2, 5>>
    /\ mem[6].Priority < mem[2].Priority

\* C2. On a non-empty queue Peek and Dequeue return (value, true), the value
\* of an element of the queue that no element of the queue strictly outranks;
\* in every reachable state, those right after UpdatePriority and Remove included.
C2_PeekDequeueBest ==
    Len(items) > 0 =>
        LET p == Peek(Self)
            d == Dequeue(Self)
        IN  /\ p.ok /\ Best(p.item) /\ p.value = mem[p.item].Value
            /\ d.ok /\ Best(d.item) /\ d.value = mem[d.item].Value

\* An UpdatePriority has just made another element the best one: it moved the
\* updated element to the root of a queue of at least four elements.
C2_Witness ==
    /\ ret.op = "UpdatePriority"
    /\ Len(items) >= 4
    /\ mem[ret.arg].Index = 0
    /\ ret.arg /= 1
    /\ \E g \in InQueue(Self) : Outranks(ret.arg, g)
    /\ Peek(Self).item = ret.arg

\* C3. Enqueue calls followed by Dequeue calls only: the i-th Dequeue succeeds
\* exactly when i is at most the number of elements enqueued (so the one after
\* the last element returns not-found), and the priorities dequeued are
\* non-decreasing on a New queue and non-increasing on a NewMax queue.
C3_DrainOrder ==
    /\ \A i \in 1..Len(drained) : drained[i].ok <=> i <= Len(mem)
    /\ \A i \in 1..Len(drained) : \A j \in 1..Len(drained) :
          (i < j /\ drained[i].ok /\ drained[j].ok) =>
              IF isMaxHeap
              THEN mem[drained[i].item].Priority >= mem[drained[j].item].Priority
              ELSE mem[drained[i].item].Priority <= mem[drained[j].item].Priority

\* A full drain of MaxFill elements of different priorities, enqueued out of
\* order, and the not-found Dequeue after it.
C3_Witness ==
    /\ Len(mem) = MaxFill
    /\ Len(drained) = MaxFill + 1
    /\ ~drained[Len(drained)].ok
    /\ \E h \in 1..(MaxFill - 1) :
          IF isMaxHeap THEN mem[h].Priority < mem[h + 1].Priority
                       ELSE mem[h].Priority > mem[h + 1].Priority

\* C4. Size consistency: Size() is one more after Enqueue, one less after a
\* Dequeue or Remove that returned ok=true, the same after one that returned
\* ok=false and after UpdatePriority, Peek, IsEmpty, Size, ToSlice and String,
\* and 0 after Clear; IsEmpty() returns true exactly when Size() is 0.
C4_SizeConsistency ==
    [][LET before == Size(Self)
           after  == Size([items |-> items', mem |-> mem'])
       IN  /\ ret'.op = "Enqueue" => after = before + 1
           /\ (ret'.op \in {"Dequeue", "Remove"} /\ ret'.ok) => after = before - 1
           /\ (ret'.op \in {"Dequeue", "Remove"} /\ ~ret'.ok) => after = before
           /\ ret'.op \in {"UpdatePriority", "Peek", "IsEmpty", "Size",
                           "ToSlice", "String"} => after = before
           /\ ret'.op = "Clear" => after = 0
           /\ ret'.op = "IsEmpty" => (ret'.out <=> before = 0)
           /\ ret'.op = "Size" => ret'.out = Len(items)]_vars

\* A Remove with a live handle has returned ok=true on a queue of MaxFill
\* elements, leaving MaxFill - 1.
C4_Witness ==
    /\ ret.op = "Remove" /\ ret.ok
    /\ Len(mem) = MaxFill
    /\ Size(Self) = MaxFill - 1

\* C5. Empty-queue access: on a queue with no element (new, drained or
\* cleared) Dequeue and Peek return (zero, false) and Dequeue leaves the
\* queue and every handle as they were.
C5_EmptyAccess ==
    /\ Len(items) = 0 =>
          /\ Dequeue(Self) = [pq |-> Self, value |-> Zero, ok |-> FALSE, item |-> 0]
          /\ Peek(Self) = [value |-> Zero, ok |-> FALSE, item |-> 0]
    /\ (ret.op \in {"Dequeue", "Peek"} /\ ~ret.ok) => (Len(items) = 0 /\ ret.value = Zero)

\* A Dequeue has returned not-found on a queue that was cleared, refilled and
\* drained.
C5_Witness ==
    /\ ret.op = "Dequeue" /\ ~ret.ok
    /\ Len(items) = 0
    /\ \E h \in Handles : fate[h] = "cleared"
    /\ \E h \in Handles : fate[h] = "dequeued"

\* C6. Remove with a handle consumed by a prior Clear returns not-found and
\* takes nothing out, whatever was enqueued after the Clear.
C6_RemoveAfterClear ==
    (ret.op = "Remove" /\ fate[ret.arg] = "cleared") => (~ret.ok /\ ret.item = 0)

\* C7. Right after Clear returns, every handle issued before it has Index -1.
C7_ClearInvalidates ==
    ret.op = "Clear" => \A h \in Handles : mem[h].Index = -1

\* h was returned by Dequeue or taken out by Remove.
Extracted(h) == fate[h] \in {"dequeued", "removed"}

\* C8. Once an element was returned by Dequeue or taken out by Remove, its
\* handle's Index is -1 in every later state, Remove with it returns (zero,
\* false), and Remove and UpdatePriority with it leave the slice and every
\* Item as they are.
C8_StaleAfterExtraction ==
    \A h \in Handles :
        Extracted(h) =>
            /\ mem[h].Index = -1
            /\ Remove(Self, h) = [pq |-> Self, value |-> Zero, ok |-> FALSE, item |-> 0]
            /\ \A p \in Priorities : UpdatePriority(Self, h, p) = Self

\* A Remove with the handle of a dequeued element has returned not-found
\* while another element was in the queue.
C8_Witness ==
    /\ ret.op = "Remove" /\ ~ret.ok
    /\ fate[ret.arg] = "dequeued"
    /\ Len(items) > 0

\* C9. UpdatePriority with a handle consumed by a prior Clear leaves the
\* slice and the Item of every element of the queue as they are, and the heap
\* invariant holds afterwards; in every later state, new enqueues included.
C9_UpdateAfterClear ==
    \A h \in Handles : \A p \in Priorities :
        fate[h] = "cleared" =>
            LET q == UpdatePriority(Self, h, p)
            IN  /\ q.items = items
                /\ \A g \in InQueue(Self) : q.mem[g] = mem[g]
                /\ HeapOrdered(q)

\* An UpdatePriority with a cleared handle whose Index is that of an
\* interior slot of the refilled queue has passed the bounds check and
\* written the new priority to the stale Item.
C9_Witness ==
    /\ ret.op = "UpdatePriority"
    /\ fate[ret.arg] = "cleared"
    /\ mem[ret.arg].Index = 1
    /\ Len(items) >= 4
    /\ mem[ret.arg].Priority = ret.out
    /\ ret.out /= 1
    /\ Outranks(ret.arg, items[2])

\* C10. Remove with the handle h of an element of the queue, at any index,
\* returns (h.Value, true); afterwards h is not in the slice and h.Index is
\* -1, and every other element is in the slice exactly once with its value
\* and priority unchanged.
C10_RemoveLive ==
    \A h \in InQueue(Self) :
        LET r == Remove(Self, h)
        IN  /\ r.ok /\ r.item = h /\ r.value = mem[h].Value
            /\ h \notin InQueue(r.pq)
            /\ r.pq.mem[h].Index = -1
            /\ Len(r.pq.items) = Len(items) - 1
            /\ InQueue(r.pq) = InQueue(Self) \ {h}
            /\ \A g \in InQueue(r.pq) :
                  /\ r.pq.mem[g].Value = mem[g].Value
                  /\ r.pq.mem[g].Priority = mem[g].Priority

\* A Remove has taken the element of the interior index 1 out of a queue of
\* MaxFill elements: its two children and its parent are still there.
C10_Witness ==
    /\ ret.op = "Remove" /\ ret.ok /\ ret.item = ret.arg
    /\ ret.arg = 2
    /\ Len(mem) = MaxFill
    /\ \A h \in Handles : fate[h] = IF h = 2 THEN "removed" ELSE "live"
    /\ InQueue(Self) = Handles \ {2}
    /\ \A h \in Handles : mem[h].Priority = IF isMaxHeap THEN MaxPriority ELSE 1

\* The queue of the next state.
SelfNext == [items |-> items', mem |-> mem']

RECURSIVE DrainOf(_)
\* The Items that Dequeue calls take out of pq until it is empty, in order.
DrainOf(pq) ==
    IF Len(pq.items) = 0
    THEN <<>>
    ELSE LET r == Dequeue(pq) IN <<r.item>> \o DrainOf(r.pq)

\* The priorities in m of the Items of the sequence d never get better.
PriorityOrdered(d, m) ==
    \A i \in 1..Len(d) : \A j \in 1..Len(d) :
        i < j => IF isMaxHeap THEN m[d[i]].Priority >= m[d[j]].Priority
                              ELSE m[d[i]].Priority <= m[d[j]].Priority

\* C11. UpdatePriority(h, p) on a live handle h, with any priority p (higher,
\* lower or the same): h.Priority becomes p, the queue holds the same elements
\* and has the same size, no value and no other element's priority changes,
\* the heap invariant holds afterwards, and draining the queue then returns
\* every element once, in the order of the updated priorities.
C11_UpdateLive ==
    [][(ret'.op = "UpdatePriority" /\ ret'.arg \in InQueue(Self)) =>
          \E h \in {ret'.arg} : \E d \in {DrainOf(SelfNext)} :
              /\ mem'[h].Priority = ret'.out
              /\ InQueue(SelfNext) = InQueue(Self)
              /\ Len(items') = Len(items)
              /\ Len(mem') = Len(mem)
              /\ \A g \in Handles :
                    /\ mem'[g].Value = mem[g].Value
                    /\ g /= h => mem'[g].Priority = mem[g].Priority
              /\ HeapOrdered(SelfNext)
              /\ Len(d) = Len(items')
              /\ {d[i] : i \in 1..Len(d)} = InQueue(Self)
              /\ PriorityOrdered(d, mem')]_vars

\* UpdatePriority has made the root of a full min-heap of equal priorities
\* the worst element: it went down to the last level, and its priority is
\* the one that was passed.
C11_Witness ==
    /\ ~isMaxHeap
    /\ ret.op = "UpdatePriority" /\ ret.arg = 1 /\ ret.out = MaxPriority
    /\ Len(items) = MaxFill
    /\ mem[1].Index >= 3
    /\ mem[1].Priority = MaxPriority
    /\ \A g \in InQueue(Self) \ {1} : mem[g].Priority = 1

\* C13. ToSlice returns the items ordered by priority: the priorities of the
\* returned slice never get better from one entry to the next.
C13_ToSliceSorted ==
    ret.op = "ToSlice" =>
        \A i \in 1..Len(ret.out) : \A j \in 1..Len(ret.out) :
            i < j => IF isMaxHeap THEN ret.out[i].Priority >= ret.out[j].Priority
                                  ELSE ret.out[i].Priority <= ret.out[j].Priority

\* What a caller reads in entry e of a returned slice when the Item structs
\* are m: the entry itself when it is a struct, the struct it points to when
\* it is a pointer.
Observed(m, e) == IF "ref" \in DOMAIN e THEN m[e.ref] ELSE e

\* C14. ToSlice leaves the slice and every Item as they were and returns one
\* entry per slot, in slice order, with the value and the priority of the
\* slot's Item; no entry strictly outranks the first one; and the entries a
\* caller holds read the same after the next public call, whatever it is.
C14_Snapshot ==
    [][/\ ret'.op = "ToSlice" =>
             /\ items' = items /\ mem' = mem
             /\ Len(ret'.out) = Len(items)
             /\ \A i \in 1..Len(items) :
                   /\ Observed(mem', ret'.out[i]).Value = mem[items[i]].Value
                   /\ Observed(mem', ret'.out[i]).Priority = mem[items[i]].Priority
                   /\ IF isMaxHeap
                      THEN Observed(mem', ret'.out[i]).Priority
                             <= Observed(mem', ret'.out[1]).Priority
                      ELSE Observed(mem', ret'.out[i]).Priority
                             >= Observed(mem', ret'.out[1]).Priority
       /\ ret.op = "ToSlice" =>
             \A i \in 1..Len(ret.out) :
                 Observed(mem', ret.out[i]) = Observed(mem, ret.out[i])]_vars

\* A caller holds the slice of a full queue, and an UpdatePriority call made
\* after ToSlice has given a live element a priority that another element
\* strictly outranks; the element is not at the root.
C14_Witness ==
    /\ ret.op = "UpdatePriority"
    /\ Len(items) = MaxFill
    /\ ret.arg \in InQueue(Self)
    /\ mem[ret.arg].Index > 0
    /\ mem[ret.arg].Priority = ret.out
    /\ \E g \in InQueue(Self) : Outranks(g, ret.arg)

\* C15. A Peek call changes neither the slice, nor Size(), nor any Item
\* (position, priority, value), and a Peek call made right after it returns
\* the same (value, ok); hence so does any number of consecutive Peek calls.
C15_PeekIdempotent ==
    [][ret'.op = "Peek" =>
          /\ items' = items /\ mem' = mem
          /\ Size(SelfNext) = Size(Self)
          /\ ret'.value = Peek(Self).value /\ ret'.ok = Peek(Self).ok
          /\ Peek(SelfNext).value = ret'.value
          /\ Peek(SelfNext).ok = ret'.ok]_vars

\* Peek has returned the root of a full queue that holds better and worse
\* elements, and the next Peek returns it again.
C15_Witness ==
    /\ ret.op = "Peek" /\ ret.ok
    /\ Len(items) = MaxFill
    /\ ret.item = items[1]
    /\ Peek(Self).value = ret.value
    /\ \E g \in InQueue(Self) : Outranks(ret.item, g)

\* The values of the slots of pq, in slice order.
ValuesOf(pq) == [i \in 1..Len(pq.items) |-> pq.mem[pq.items[i]].Value]

\* The values that Dequeue calls return until pq is empty, in order.
DrainValues(pq) == [i \in 1..Len(pq.items) |-> pq.mem[DrainOf(pq)[i]].Value]

\* Value a strictly outranks value b under the comparator and the flag.
CmpOutranks(a, b) == IF isMaxHeap THEN Compare(a, b) > 0 ELSE Compare(a, b) < 0

\* The queue filled with the values enqueued so far, each with priority 1.
SamePriority == FillWith(New, [h \in Handles |-> mem[h].Value], [h \in Handles |-> 1])

\* C12. On a queue built with a comparator: no slot's value strictly outranks
\* (negative comparator result for isMaxHeap = false, positive for true) the
\* value at its parent index; a drain after the enqueues returns the values
\* in comparator order (never decreasing for false, never increasing for
\* true); and the priorities are inert: the slice order and the drain order
\* are those of the same enqueues made with priority 1, UpdatePriority with
\* any handle and any priority leaves the slice order as it is, and Enqueue
\* of a value puts it at the same place whatever its priority.
C12_ComparatorOrder ==
    /\ \A i \in 1..(Len(items) - 1) :
          ~CmpOutranks(ItemAt(Self, i).Value, ItemAt(Self, (i - 1) \div 2).Value)
    /\ \A h \in Handles : \A p \in Priorities :
          UpdatePriority(Self, h, p).items = items
    /\ Filled =>
          LET d == DrainValues(Self)
          IN  /\ \A i \in 1..Len(d) : \A j \in 1..Len(d) :
                    i < j => IF isMaxHeap THEN Compare(d[i], d[j]) >= 0
                                          ELSE Compare(d[i], d[j]) <= 0
              /\ ValuesOf(Self) = ValuesOf(SamePriority)
              /\ d = DrainValues(SamePriority)
              /\ \A v \in Values : \A p \in Priorities :
                    ValuesOf(Enqueue(Self, v, p).pq) = ValuesOf(Enqueue(Self, v, 1).pq)

\* On a comparator min-queue UpdatePriority has given the root, whose value
\* is strictly the smallest, the largest priority while every other element
\* has priority 1: by priority the root would be the worst element, and it
\* is still at index 0.
C12_Witness ==
    /\ comparator = "cmp" /\ ~isMaxHeap
    /\ ret.op = "UpdatePriority" /\ ret.arg = items[1] /\ ret.out = MaxPriority
    /\ Len(items) = MaxCmpFill
    /\ mem[items[1]].Priority = MaxPriority
    /\ \A g \in InQueue(Self) \ {items[1]} :
          /\ mem[g].Priority = 1
          /\ Compare(mem[items[1]].Value, mem[g].Value) < 0

\* The calls of a script: Enqueue with a priority, Dequeue, Peek.
ScriptCalls ==
    [op : {"Enqueue"}, priority : Priorities] \cup [op : {"Dequeue", "Peek"}, priority : {0}]

\* Every sequence of at most MaxScript calls.
Scripts == UNION {[1..n -> ScriptCalls] : n \in 0..MaxScript}

RECURSIVE Run(_, _, _)
\* What the calls of script s return on pq, the k-th call of the whole
\* script being the first of s; an Enqueue passes the value k and returns a
\* pointer, of which the struct it points to is recorded.
Run(pq, s, k) ==
    IF Len(s) = 0
    THEN <<>>
    ELSE IF Head(s).op = "Enqueue"
         THEN LET r == Enqueue(pq, k, Head(s).priority)
              IN  <<r.pq.mem[r.item]>> \o Run(r.pq, Tail(s), k + 1)
         ELSE IF Head(s).op = "Dequeue"
              THEN LET r == Dequeue(pq)
                   IN  <<[value |-> r.value, ok |-> r.ok]>> \o Run(r.pq, Tail(s), k + 1)
              ELSE <<[value |-> Peek(pq).value, ok |-> Peek(pq).ok]>>
                       \o Run(pq, Tail(s), k + 1)

\* C20. Right after Clear, whatever the queue held: Size() is 0, IsEmpty()
\* is true, ToSlice is empty, Peek and Dequeue return (zero, false), the
\* flag and the comparator are the ones the queue had before, and every
\* script of Enqueue, Dequeue and Peek calls returns on the cleared queue
\* what it returns on a new queue of the same mode.
C20_ClearResets ==
    /\ [](ret.op = "Clear" =>
            /\ Size(Self) = 0
            /\ IsEmpty(Self)
            /\ ToSlice(Self) = <<>>
            /\ Peek(Self) = [value |-> Zero, ok |-> FALSE, item |-> 0]
            /\ ~Dequeue(Self).ok /\ Dequeue(Self).value = Zero
            /\ \A s \in Scripts : Run(Self, s, 1) = Run(New, s, 1))
    /\ [][ret'.op = "Clear" => isMaxHeap' = isMaxHeap /\ comparator' = comparator]_vars

\* Clear has emptied a queue that held every element enqueued so far: the
\* handles are stale and still carry the indexes they had.
C20_Witness ==
    /\ ret.op = "Clear"
    /\ Len(mem) = MaxHandles
    /\ \A h \in Handles : fate[h] = "cleared"
    /\ \E h \in Handles : mem[h].Index > 0

\* The goroutines inside a writing method's critical section, and inside a
\* reading method's.
Writing == {t \in Threads : pc[t] \in {"in", "mid"} /\ job[t].op \in Writers}
Reading == {t \in Threads : pc[t] = "in" /\ job[t].op \in Readers}

\* Index tracking: every slot's Item carries the slot's index.
Tracked(pq) == \A i \in 0..(Len(pq.items) - 1) : ItemAt(pq, i).Index = i

\* C16. No two goroutines are inside the critical section of Enqueue,
\* Dequeue, Clear, UpdatePriority or Remove together; none is inside one while
\* a goroutine is inside that of Peek, IsEmpty, ToSlice or String; and while
\* a reader is inside, no writing method is between its two steps: the slice
\* the reader sees is heap-ordered and index-tracked.
C16_MutualExclusion ==
    /\ Cardinality(Writing) <= 1
    /\ Writing /= {} => Reading = {}
    /\ Reading /= {} =>
          /\ \A t \in Threads : pc[t] /= "mid"
          /\ HeapOrdered(Self)
          /\ Tracked(Self)

\* A writer is between its two steps, the slice is not heap-ordered, and the
\* other goroutine has called a reading method and waits at RLock.
C16_Witness ==
    \E t \in Threads : \E u \in Threads :
        /\ pc[t] = "mid" /\ ~HeapOrdered(Self)
        /\ pc[u] = "lock" /\ job[u].op \in Readers

\* Two readers are inside together.
ReadersTogether == Cardinality(Reading) = 2

\* The sizes that the writing calls under way are going to leave.
InFlight == {job[t].after : t \in Writing}

\* C17. Every length written to the slice is the size the queue had after a
\* completed mutation or the size the mutation under way is going to leave
\* (each writing method changes the length at most once, by its own amount);
\* so a Size() call, which reads the length without the lock, has returned
\* one of those sizes and nothing else.
C17_SizeRace ==
    /\ lens \subseteq sizes \cup InFlight
    /\ \A t \in Threads :
          (pc[t] = "done" /\ job[t].op = "Size") => job[t].out \in sizes \cup InFlight

\* Size() has returned the length that an Enqueue has written but whose
\* element is not in place yet: the size no completed mutation has left.
C17_Witness ==
    \E t \in Threads : \E u \in Threads :
        /\ pc[t] = "done" /\ job[t].op = "Size"
        /\ pc[u] = "mid" /\ job[u].op = "Enqueue"
        /\ job[t].out = job[u].after
        /\ job[t].out \notin sizes

\* No call is under way.
Quiet == \A t \in Threads : pc[t] \in {"idle", "done"}

\* C19. Under fair scheduling every call that a goroutine has made returns
\* and the mutex is free afterwards: again and again no call is under way
\* and nobody holds the mutex. The mutex is held only by goroutines that are
\* inside a call (a writer from Lock to its return, a reader from RLock to
\* its return), whatever the exit path, the early returns of Dequeue,
\* UpdatePriority and Remove included.
C19_NoBlocking ==
    /\ []<>(Quiet /\ w = 0 /\ readers = {})
    /\ [](w /= 0 => pc[w] \in {"wait", "in", "mid"})
    /\ [](\A t \in readers : pc[t] = "in")

\* A Dequeue has taken an element out and returned, a Remove of that
\* element by the other goroutine has then found its handle stale and
\* returned early, and the mutex is free.
C19_Witness ==
    \E t \in Threads : \E u \in Threads :
        /\ pc[t] = "done" /\ job[t].op = "Remove" /\ job[t].early /\ ~job[t].ok
        /\ pc[u] = "done" /\ job[u].op = "Dequeue" /\ job[u].item = job[t].arg
        /\ w = 0 /\ readers = {}

\* Both loops of the producer and the consumer have ended.
Finished ==
    /\ Quiet
    /\ Len(mem) = MaxHandles
    /\ Len(drained) = MaxHandles

\* C18. Producer and consumer under fair scheduling: both loops end; no
\* element is ever returned by two Dequeue calls; and when both have ended
\* the queue is empty and every element enqueued has been dequeued once.
C18_ProducerConsumer ==
    /\ <>Finished
    /\ [](\A i \in 1..Len(drained) : \A k \in 1..Len(drained) :
            i /= k => drained[i].item /= drained[k].item)
    /\ [](Finished =>
            /\ items = <<>>
            /\ {drained[i].item : i \in 1..Len(drained)} = Handles
            /\ \A h \in Handles : fate[h] = "dequeued" /\ mem[h].Index = -1)

\* Both loops have ended on a min-queue, the consumer got the elements in
\* the order they were enqueued, and the queue never held two elements: every
\* element was dequeued before the next one was enqueued.
C18_Witness ==
    /\ Finished /\ ~isMaxHeap
    /\ items = <<>>
    /\ \A i \in 1..MaxHandles : drained[i].item = i
    /\ sizes = {0, 1}

\* C21. Position tracking: after every public call the Item in slot i has
\* Index = i, for every slot (so the Items of the slice have pairwise
\* distinct positions in 0..Size()-1); and Enqueue, with any priority, leaves
\* the slice tracked and returns a handle that is in the slice, carries the
\* value and the priority passed, and has the index of the slot it is in.
C21_PositionTracking ==
    /\ Tracked(Self)
    /\ \A g \in InQueue(Self) : \A h \in InQueue(Self) :
          g /= h => mem[g].Index /= mem[h].Index
    /\ \A h \in InQueue(Self) : mem[h].Index \in 0..(Size(Self) - 1)
    /\ \A p \in Priorities :
          \E r \in {Enqueue(Self, NextValue, p)} :
              /\ Tracked(r.pq)
              /\ r.item \in InQueue(r.pq)
              /\ r.pq.mem[r.item].Value = NextValue
              /\ r.pq.mem[r.item].Priority = p
              /\ At(r.pq, r.pq.mem[r.item].Index) = r.item
    /\ ret.op = "Enqueue" =>
          /\ ret.item \in InQueue(Self)
          /\ mem[ret.item].Value = ret.value
          /\ At(Self, mem[ret.item].Index) = ret.item

\* Enqueue on a six-element queue has returned a handle whose element went
\* up from the last slot and stopped at index 2, below the root.
C21_Witness ==
    /\ ret.op = "Enqueue"
    /\ Len(items) = MaxFill + 1
    /\ ret.item = Len(mem)
    /\ mem[ret.item].Index = 2
    /\ items[3] = ret.item
    /\ Outranks(ret.item, items[7])
    /\ ~Outranks(ret.item, items[1])

\* The specified re-heapification around index i: sift the element up and,
\* if it did not move, sift it down.
fix(pq, i) ==
    LET u == up(pq, i)
    IN  IF u.items = pq.items THEN down(u, i, PQLen(u)).pq ELSE u

\* The specified removal at index i: the last slot is truncated when i is the
\* last index; otherwise the slots i and last are swapped, the slice is
\* truncated, the removed Item gets Index -1 and fix(i) follows.
remove_at(pq, i) ==
    LET n == PQLen(pq) - 1
    IN  IF i = n THEN Pop(pq).pq ELSE fix(Pop(Swap(pq, i, n)).pq, i)

\* C22. Fix direction: on every valid heap, UpdatePriority of any live handle
\* to any priority leaves exactly the queue that writing the priority and
\* then the up-first fix leaves, and Remove of any live handle leaves exactly
\* the queue that the removal with the up-first fix leaves: container/heap's
\* down-first order gives the same slice and the same indexes.
C22_FixDirection ==
    [][/\ (ret'.op = "UpdatePriority" /\ ret'.arg \in InQueue(Self)) =>
             SelfNext = fix([items |-> items,
                             mem   |-> [mem EXCEPT ![ret'.arg].Priority = ret'.out]],
                            mem[ret'.arg].Index)
       /\ (ret'.op = "Remove" /\ ret'.arg \in InQueue(Self)) =>
             SelfNext = remove_at(Self, mem[ret'.arg].Index)]_vars

\* UpdatePriority has given the element in the last slot of a full max-heap
\* of equal priorities the best priority: heap.Fix's down did not move it and
\* its up took it to the root.
C22_Witness ==
    /\ isMaxHeap
    /\ ret.op = "UpdatePriority" /\ ret.arg = MaxFill /\ ret.out = MaxPriority
    /\ Len(items) = MaxFill
    /\ mem[MaxFill].Index = 0
    /\ \A g \in InQueue(Self) \ {MaxFill} : mem[g].Priority = 1

\* The Items enqueued since the last Clear that no successful Dequeue or
\* Remove has returned.
Live == {h \in Handles : fate[h] = "live"}

\* C23. Conservation: the slice holds exactly the Items enqueued since the
\* last Clear and not returned by a successful Dequeue or Remove, each of
\* them once; every slot below Size() holds an Item; and the Item a
\* successful Dequeue or Remove returns the value of has left the slice.
C23_Conservation ==
    /\ InQueue(Self) = Live
    /\ Cardinality(InQueue(Self)) = Size(Self)
    /\ \A i \in 1..Size(Self) : items[i] \in Handles
    /\ (ret.op \in {"Dequeue", "Remove"} /\ ret.ok) =>
          /\ Extracted(ret.item)
          /\ ret.item \notin InQueue(Self)
          /\ ret.value = mem[ret.item].Value

\* Remove has taken an element out of a queue that was cleared and refilled
\* before: at least three of the elements enqueued since the Clear are left,
\* and the one enqueued last is not in the last slot.
C23_Witness ==
    /\ ret.op = "Remove" /\ ret.ok /\ ret.arg = ret.item
    /\ fate[1] = "cleared"
    /\ Cardinality(Live) >= 3
    /\ Len(mem) = MaxFill
    /\ fate[Len(mem)] = "live" /\ mem[Len(mem)].Index < Size(Self) - 1

====
